---- MODULE Spec2Model ----
(***************************************************************************)
(* Portfolio state transition and valuation engine of src/main.py.         *)
(*                                                                         *)
(* One run of main() loads the persisted holdings and cash, fetches the    *)
(* prices, applies the pending orders of trading_decisions.json, values    *)
(* the portfolio, computes the daily changes against a row of              *)
(* data/portfolio_history.csv and writes the files back, one after the     *)
(* other.  The files persist between runs; everything else is lost when    *)
(* the process ends.  Money is counted in whole units of the smallest      *)
(* amount (exact integer arithmetic); the two-decimal display strings of   *)
(* docs/latest.json and the per-symbol "_value" column are not modelled.   *)
(***************************************************************************)
EXTENDS Integers, Sequences, FiniteSets

\* ------------------------------------------------------------- bounds
\* Number of runs of main() in a behaviour of Spec.
MaxRuns == 3
\* Number of times trading_decisions.json is written from outside in Spec.
MaxAuthored == 1
\* Highest price the price source answers with.
MaxPrice == 2
\* Longest pending list the author of trading_decisions.json writes.
MaxQueueLen == 2
\* Largest share count and cash of a state store found at the start of SpecRun.
MaxQty == 1
MaxCash == 2
\* The symbols of the universe that are modelled (two of the seven).
SYMBOLS == {"GEVO", "FEIM"}
\* target_quantity values an authored TRIM_TO order carries.
TargetQuantities == {-1, 1}
\* target_value values an authored BUY_NEW order carries.
TargetValues == {1, 3}

\* ---------------------------------------------------------- constants
DefaultHoldings == [s \in SYMBOLS |-> IF s = "GEVO" THEN 199 ELSE 10]
DefaultCash == 180

\* A missing file / a None value.
None == [none |-> TRUE]

VARIABLES
    \* persisted files
    holdingsFile,      \* data/holdings.json: None or symbol -> count
    cashFile,          \* data/cash.json: None or {"cash": cash}
    decisionsFile,     \* trading_decisions.json
    historyCsv,        \* data/portfolio_history.csv: sequence of rows
    \* the running process
    pc,                \* position of main()
    current_date,      \* the run date (day number)
    budget,            \* runs and outside writes the behaviour may still take
    applied,           \* history variable: the runs that have written back
                       \* effects of the orders of the last authored list
    holdings, cash, prices,
    decisions_data,    \* the parsed queue record, once read
    idx,               \* position of the for loop over execution_queue
    claude_actions,
    total_value, previous_data, daily_changes, portfolio_data

files == <<holdingsFile, cashFile, decisionsFile, historyCsv>>
memory == <<holdings, cash, prices, decisions_data, idx, claude_actions,
            total_value, previous_data, daily_changes, portfolio_data>>
vars == <<files, memory, pc, current_date, budget, applied>>

\* ------------------------------------------------------------ helpers
RECURSIVE SumOver(_, _)
SumOver(S, f) ==
    IF S = {} THEN 0
    ELSE LET s == CHOOSE x \in S : TRUE IN f[s] + SumOver(S \ {s}, f)

\* A price map holds only the symbols whose fetch answered a price.
PriceMaps == UNION {[D -> 1..MaxPrice] : D \in SUBSET SYMBOLS}

\* ------------------------------------------------------------- orders
Order(sym, act, hasq, tq, tv) ==
    [symbol |-> sym, action |-> act, has_target_quantity |-> hasq,
     target_quantity |-> tq, target_value |-> tv]

\* The orders an authored queue is made of: sales of GEVO (one of them
\* without its target_quantity key), purchases of FEIM, a HOLD and an
\* action tag the engine does not know.
Orders ==
    {Order("GEVO", "SELL_ALL", FALSE, 0, 0), Order("FEIM", "HOLD", FALSE, 0, 0),
     Order("FEIM", "REBALANCE", FALSE, 0, 0)}
    \cup {Order("GEVO", "TRIM_TO", TRUE, q, 0) : q \in TargetQuantities}
    \cup {Order("GEVO", "TRIM_TO", FALSE, 0, 0)}
    \cup {Order("FEIM", "BUY_NEW", FALSE, 0, v) : v \in TargetValues}

Queues == UNION {[1..n -> Orders] : n \in 0..MaxQueueLen}

\* The record execute_trading_decisions saves once the loop is through.
Consumed(date) ==
    [kind |-> "ok", execution_queue |-> <<>>,
     claude_decisions_executed |-> TRUE, execution_date |-> date]

Pending(q) ==
    [kind |-> "ok", execution_queue |-> q,
     claude_decisions_executed |-> FALSE, execution_date |-> 0]

\* A file that is missing, empty, not JSON, or JSON that is no object.
Broken(kind) ==
    [kind |-> kind, execution_queue |-> <<>>,
     claude_decisions_executed |-> FALSE, execution_date |-> 0]

BrokenKinds == {"missing", "empty", "garbage", "nodict"}

\* --------------------------------------------------- the order engine
Outcome(h, c, acts, raised) ==
    [holdings |-> h, cash |-> c, actions |-> acts, raised |-> raised]

\* Mutant of SellAll: the position is paid out but not cleared.
SellAllKeepsShares(h, c, p, s) ==
    IF h[s] > 0 /\ s \in DOMAIN p
    THEN [holdings |-> h, cash |-> c + h[s] * p[s],
          actions |-> <<[msg |-> "SELL ALL", symbol |-> s, shares |-> h[s],
                         amount |-> h[s] * p[s]]>>, raised |-> FALSE]
    ELSE [holdings |-> h, cash |-> c, actions |-> <<>>, raised |-> FALSE]

SellAll(h, c, p, s) ==
    IF h[s] > 0 /\ s \in DOMAIN p
    THEN Outcome([h EXCEPT ![s] = 0], c + h[s] * p[s],
                 <<[msg |-> "SELL ALL", symbol |-> s, shares |-> h[s],
                    amount |-> h[s] * p[s]]>>, FALSE)
    ELSE Outcome(h, c, <<>>, FALSE)

\* Mutant of TrimTo: the proceeds are those of the whole position.
TrimToPaysPosition(h, c, p, s, target_qty) ==
    IF h[s] > target_qty /\ s \in DOMAIN p
    THEN [holdings |-> [h EXCEPT ![s] = target_qty], cash |-> c + h[s] * p[s],
          actions |-> <<[msg |-> "TRIM", symbol |-> s, shares |-> target_qty,
                         amount |-> h[s] * p[s]]>>, raised |-> FALSE]
    ELSE [holdings |-> h, cash |-> c, actions |-> <<>>, raised |-> FALSE]

TrimTo(h, c, p, s, target_qty) ==
    IF h[s] > target_qty /\ s \in DOMAIN p
    THEN Outcome([h EXCEPT ![s] = target_qty], c + (h[s] - target_qty) * p[s],
                 <<[msg |-> "TRIM", symbol |-> s, shares |-> target_qty,
                    amount |-> (h[s] - target_qty) * p[s]]>>, FALSE)
    ELSE Outcome(h, c, <<>>, FALSE)

\* Mutant of BuyNew: the whole target value is charged, not the cost.
BuyNewChargesTarget(h, c, p, s, target_value) ==
    IF target_value > 0 /\ c >= target_value /\ s \in DOMAIN p /\ p[s] > 0
    THEN LET shares_to_buy == target_value \div p[s]
             cost == shares_to_buy * p[s]
         IN IF cost <= c
            THEN [holdings |-> [h EXCEPT ![s] = h[s] + shares_to_buy],
                  cash |-> c - target_value,
                  actions |-> <<[msg |-> "BUY", symbol |-> s, shares |-> shares_to_buy,
                                 amount |-> cost]>>, raised |-> FALSE]
            ELSE [holdings |-> h, cash |-> c, actions |-> <<>>, raised |-> FALSE]
    ELSE [holdings |-> h, cash |-> c, actions |-> <<>>, raised |-> FALSE]

\* Mutant of BuyNew: the share count is rounded up.
BuyNewRoundsUp(h, c, p, s, target_value) ==
    IF target_value > 0 /\ c >= target_value /\ s \in DOMAIN p /\ p[s] > 0
    THEN LET shares_to_buy == (target_value + p[s] - 1) \div p[s]
             cost == shares_to_buy * p[s]
         IN IF cost <= c
            THEN [holdings |-> [h EXCEPT ![s] = h[s] + shares_to_buy], cash |-> c - cost,
                  actions |-> <<[msg |-> "BUY", symbol |-> s, shares |-> shares_to_buy,
                                 amount |-> cost]>>, raised |-> FALSE]
            ELSE [holdings |-> h, cash |-> c, actions |-> <<>>, raised |-> FALSE]
    ELSE [holdings |-> h, cash |-> c, actions |-> <<>>, raised |-> FALSE]

BuyNew(h, c, p, s, target_value) ==
    IF target_value > 0 /\ c >= target_value /\ s \in DOMAIN p /\ p[s] > 0
    THEN LET shares_to_buy == target_value \div p[s]
             cost == shares_to_buy * p[s]
         IN IF cost <= c
            THEN Outcome([h EXCEPT ![s] = h[s] + shares_to_buy], c - cost,
                         <<[msg |-> "BUY", symbol |-> s, shares |-> shares_to_buy,
                            amount |-> cost]>>, FALSE)
            ELSE Outcome(h, c, <<>>, FALSE)
    ELSE Outcome(h, c, <<>>, FALSE)

\* One pass of the loop body.  order["target_quantity"] raises KeyError when
\* the key is missing; the handler of the function catches it.
ApplyOrder(h, c, p, order) ==
    CASE order.action = "SELL_ALL" -> SellAll(h, c, p, order.symbol)
      [] order.action = "TRIM_TO" ->
            IF order.has_target_quantity
            THEN TrimTo(h, c, p, order.symbol, order.target_quantity)
            ELSE Outcome(h, c, <<>>, TRUE)
      [] order.action = "BUY_NEW" -> BuyNew(h, c, p, order.symbol, order.target_value)
      [] OTHER -> Outcome(h, c, <<>>, FALSE)

\* The loop body writes a line for the order: the "Executed" line of an order
\* that took effect, or the HOLD line. No other branch prints.
OrderPrints(h, c, p, order) ==
    \/ ApplyOrder(h, c, p, order).actions # <<>>
    \/ order.action = "HOLD"

\* Mutant of EarlyReturn: the cash handed back is not the cash handed in.
EarlyReturnDropsCash(h, c) == Outcome(h, 0, <<>>, FALSE)

\* The two early returns: nothing to execute.
EarlyReturn(h, c) == Outcome(h, c, <<>>, FALSE)

\* not decisions_data.get("execution_queue")
NoPending(d) == d.execution_queue = <<>>

\* ------------------------------------------------------------ loading
LoadHoldings(f) == IF f = None THEN DefaultHoldings ELSE f
LoadCash(f) == IF f = None THEN DefaultCash ELSE f.cash

\* ---------------------------------------------------------- valuation
Held(h, p) == {s \in SYMBOLS : s \in DOMAIN p /\ h[s] > 0}

\* Mutant of Valuation: the test holdings[symbol] > 0 is left out.
ValuationOfAllPriced(h, c, p) == c + SumOver(DOMAIN p, [s \in DOMAIN p |-> h[s] * p[s]])

Valuation(h, c, p) == c + SumOver(Held(h, p), [s \in Held(h, p) |-> h[s] * p[s]])

\* The row appended to the history: an unknown price is written as 0.
CsvRow(date, total, c, h, p) ==
    [date |-> date, total_value |-> total, cash |-> c,
     price |-> [s \in SYMBOLS |-> IF s \in DOMAIN p THEN p[s] ELSE 0],
     qty |-> h]

\* -------------------------------------------------------------- delta
\* The row get_previous_day_data reads: the second to last when there are
\* two or more, else the only one.
PrevRow(csv) == IF Len(csv) >= 2 THEN csv[Len(csv) - 1] ELSE csv[Len(csv)]

SnapshotOfRow(row) ==
    LET keep == {s \in SYMBOLS : row.qty[s] > 0}
    IN [prices |-> [s \in keep |-> row.price[s]],
        quantities |-> [s \in keep |-> row.qty[s]],
        total_value |-> row.total_value]

GetPreviousDayData(csv) ==
    IF Len(csv) < 1 THEN None ELSE SnapshotOfRow(PrevRow(csv))

\* A percentage is kept as an exact fraction.
Pct(change, base) ==
    IF base > 0 THEN [num |-> change * 100, den |-> base] ELSE [num |-> 0, den |-> 1]

CurrentData(h, p, total) ==
    [prices |-> [s \in Held(h, p) |-> p[s]],
     quantities |-> [s \in {x \in SYMBOLS : h[x] > 0} |-> h[s]],
     total_value |-> total]

CalculateDailyChanges(current, previous) ==
    IF previous = None THEN None
    ELSE LET both == DOMAIN current.prices \cap DOMAIN previous.prices
         IN [individual |->
                [s \in both |->
                    LET price_change == current.prices[s] - previous.prices[s]
                    IN [price_change |-> price_change,
                        price_change_pct |-> Pct(price_change, previous.prices[s]),
                        value_change |-> price_change * current.quantities[s]]],
             portfolio |->
                [total_change |-> current.total_value - previous.total_value,
                 total_change_pct |->
                    Pct(current.total_value - previous.total_value,
                        previous.total_value)]]

PortfolioData(date, h, c, p, total, acts, changes) ==
    [date |-> date, cash |-> c, total_value |-> total,
     prices |-> DOMAIN CurrentData(h, p, total).prices,
     quantities |-> {s \in SYMBOLS : h[s] > 0},
     values |-> {s \in SYMBOLS : h[s] > 0},
     actions |-> IF acts # <<>> THEN acts[1] ELSE None,
     daily_changes |-> changes,
     claude_decisions_executed |-> acts # <<>>]

\* ------------------------------------------------------ initial state
NoMemory ==
    /\ holdings = None /\ cash = 0 /\ prices = None
    /\ decisions_data = None /\ idx = 0 /\ claude_actions = <<>>
    /\ total_value = 0 /\ previous_data = None /\ daily_changes = None
    /\ portfolio_data = None

\* A fresh installation: no file exists yet.
Init ==
    /\ holdingsFile = None
    /\ cashFile = None
    /\ decisionsFile = Broken("missing")
    /\ historyCsv = <<>>
    /\ pc = "idle"
    /\ current_date = 0
    /\ budget = [runs |-> MaxRuns, writes |-> MaxAuthored]
    /\ applied = 0
    /\ NoMemory

\* One run, from any small state store earlier runs have left.
InitRun ==
    /\ \/ holdingsFile = None /\ cashFile = None
       \/ /\ holdingsFile \in [SYMBOLS -> 0..MaxQty]
          /\ cashFile \in {[cash |-> c] : c \in 0..MaxCash}
    /\ decisionsFile \in {Broken("missing"), Consumed(0)}
    /\ historyCsv = <<>>
    /\ pc = "idle"
    /\ current_date = 0
    /\ budget = [runs |-> 1, writes |-> 1]
    /\ applied = 0
    /\ NoMemory

\* ------------------------------------------------------------ actions
\* Somebody writes trading_decisions.json between two runs.
AuthorDecisions ==
    /\ pc = "idle"
    /\ budget.runs > 0 /\ budget.writes > 0
    /\ budget' = [budget EXCEPT !.writes = @ - 1]
    /\ applied' = 0
    /\ \/ \E q \in Queues : decisionsFile' = Pending(q)
       \/ \E k \in BrokenKinds : decisionsFile' = Broken(k)
    /\ UNCHANGED <<holdingsFile, cashFile, historyCsv, memory, pc, current_date>>

\* main() up to the call of execute_trading_decisions.
Begin ==
    /\ pc = "idle"
    /\ budget.runs > 0
    /\ budget' = [budget EXCEPT !.runs = @ - 1]
    /\ current_date' = current_date + 1
    /\ holdings' = LoadHoldings(holdingsFile)
    /\ cash' = LoadCash(cashFile)
    /\ \E p \in PriceMaps : prices' = p
    /\ pc' = "read"
    /\ UNCHANGED <<files, decisions_data, idx, claude_actions, total_value,
                   previous_data, daily_changes, portfolio_data, applied>>

\* execute_trading_decisions up to the loop.
ReadDecisions ==
    /\ pc = "read"
    /\ IF decisionsFile.kind # "ok" \/ NoPending(decisionsFile)
       THEN LET r == EarlyReturn(holdings, cash)
            IN /\ holdings' = r.holdings
               /\ cash' = r.cash
               /\ claude_actions' = r.actions
               /\ pc' = "valuate"
               /\ UNCHANGED <<decisions_data, idx>>
       ELSE /\ decisions_data' = decisionsFile
            /\ idx' = 1
            /\ pc' = "orders"
            /\ UNCHANGED <<holdings, cash, claude_actions>>
    /\ UNCHANGED <<files, prices, current_date, budget, applied,
                   total_value, previous_data, daily_changes, portfolio_data>>

\* One order of the loop; an exception leaves the loop and the function.
ExecOrder ==
    /\ pc = "orders"
    /\ idx <= Len(decisions_data.execution_queue)
    /\ LET r == ApplyOrder(holdings, cash, prices, decisions_data.execution_queue[idx])
       IN /\ holdings' = r.holdings
          /\ cash' = r.cash
          /\ claude_actions' = claude_actions \o r.actions
          /\ IF r.raised
             THEN pc' = "valuate" /\ idx' = idx
             ELSE pc' = "orders" /\ idx' = idx + 1
    /\ UNCHANGED <<files, prices, decisions_data, current_date, budget,
                   applied, total_value, previous_data, daily_changes,
                   portfolio_data>>

\* The loop is through: mark the decisions as executed and save the file.
MarkExecuted ==
    /\ pc = "orders"
    /\ idx > Len(decisions_data.execution_queue)
    /\ decisions_data' = Consumed(current_date)
    /\ decisionsFile' = Consumed(current_date)
    /\ pc' = "valuate"
    /\ UNCHANGED <<holdingsFile, cashFile, historyCsv, holdings, cash, prices,
                   idx, claude_actions, current_date, budget, applied,
                   total_value, previous_data, daily_changes, portfolio_data>>

\* Valuation, previous day, daily changes, docs/latest.json.
Valuate ==
    /\ pc = "valuate"
    /\ LET total == Valuation(holdings, cash, prices)
           prev == GetPreviousDayData(historyCsv)
           changes == CalculateDailyChanges(CurrentData(holdings, prices, total), prev)
       IN /\ total_value' = total
          /\ previous_data' = prev
          /\ daily_changes' = changes
          /\ portfolio_data' = PortfolioData(current_date, holdings, cash, prices,
                                             total, claude_actions, changes)
    /\ pc' = "save_holdings"
    /\ UNCHANGED <<files, holdings, cash, prices, decisions_data, idx,
                   claude_actions, current_date, budget, applied>>

SaveHoldings ==
    /\ pc = "save_holdings"
    /\ holdingsFile' = holdings
    /\ applied' = IF holdings # LoadHoldings(holdingsFile) THEN applied + 1 ELSE applied
    /\ pc' = "save_cash"
    /\ UNCHANGED <<cashFile, decisionsFile, historyCsv, memory, current_date, budget>>

SaveCash ==
    /\ pc = "save_cash"
    /\ cashFile' = [cash |-> cash]
    /\ pc' = "append"
    /\ UNCHANGED <<holdingsFile, decisionsFile, historyCsv, memory, current_date,
                   budget, applied>>

\* The process ends: its memory is gone.
Forget ==
    /\ holdings' = None /\ cash' = 0 /\ prices' = None
    /\ decisions_data' = None /\ idx' = 0 /\ claude_actions' = <<>>
    /\ total_value' = 0 /\ previous_data' = None /\ daily_changes' = None
    /\ portfolio_data' = None

AppendHistory ==
    /\ pc = "append"
    /\ historyCsv' = Append(historyCsv,
                            CsvRow(current_date, total_value, cash, holdings, prices))
    /\ pc' = "idle"
    /\ Forget
    /\ UNCHANGED <<holdingsFile, cashFile, decisionsFile, current_date, budget, applied>>

\* The run is interrupted.
Crash ==
    /\ pc # "idle"
    /\ pc' = "idle"
    /\ Forget
    /\ UNCHANGED <<files, current_date, budget, applied>>

Next ==
    \/ AuthorDecisions
    \/ Begin
    \/ ReadDecisions
    \/ ExecOrder
    \/ MarkExecuted
    \/ Valuate
    \/ SaveHoldings
    \/ SaveCash
    \/ AppendHistory
    \/ Crash

Spec == Init /\ [][Next]_vars

SpecRun == InitRun /\ [][Next]_vars

\* ============================================================= claims
PostValuate == pc \in {"save_holdings", "save_cash", "append"}

\* C1: from non-negative holdings and cash, whatever orders the queue
\* carries, cash and every holding stay >= 0 while and after the orders are
\* executed.
C1_NeverNegative ==
    pc \in {"orders", "valuate"} =>
        /\ cash >= 0
        /\ \A s \in SYMBOLS : holdings[s] >= 0

\* C2: every order placed in the pending queue is consumed once: the
\* effect of the orders of an authored list is written back to the persisted
\* holdings and cash by at most one run.
C2_AppliedInAtMostOneRun == applied <= 1

\* C3: when execute_trading_decisions was given a non-empty pending list, the
\* persisted record it leaves has an empty pending list, the executed flag
\* set and the run date as execution date, whatever the orders did.
C3_QueueMarkedConsumed ==
    [][(pc = "orders" /\ pc' = "valuate") => decisionsFile' = Consumed(current_date)]_vars

\* C4: a run writes its files only as its last step, so that an interrupted
\* run leaves queue, holdings, cash and history as they were before it.
C4_Persisted ==
    <<LoadHoldings(holdingsFile), LoadCash(cashFile), decisionsFile, historyCsv>>

C4_WritesOnlyAtTheEnd ==
    [][(pc # "idle" /\ C4_Persisted' # C4_Persisted) => pc' = "idle"]_vars

\* C5: the snapshot a run appends to the history has total_value = cash +
\* the sum of holdings[s] * prices[s] over the symbols held (> 0) whose price
\* is known in the run.
C5_PricedValue(q, p) ==
    [s \in SYMBOLS |-> IF q[s] > 0 /\ s \in DOMAIN p THEN q[s] * p[s] ELSE 0]

C5_TotalValueOfSnapshot ==
    [][Len(historyCsv') = Len(historyCsv) + 1 =>
        LET row == historyCsv'[Len(historyCsv')]
        IN /\ row.cash = cash
           /\ row.qty = holdings
           /\ row.total_value = row.cash + SumOver(SYMBOLS, C5_PricedValue(row.qty, prices))]_vars

\* C5 witness: a snapshot was persisted after an order executed, with GEVO
\* sold short of zero, FEIM held and priced.
C5_Witness ==
    /\ pc = "idle" /\ Len(historyCsv) = 1
    /\ decisionsFile.claude_decisions_executed
    /\ historyCsv[1].qty["GEVO"] < 0 /\ historyCsv[1].price["GEVO"] > 0
    /\ historyCsv[1].qty["FEIM"] > 0 /\ historyCsv[1].price["FEIM"] > 0
    /\ historyCsv[1].total_value > historyCsv[1].cash

\* C6: in a run with an earlier completed run, the previous snapshot is the
\* one the immediately preceding run persisted, and total_change is this
\* run's total value minus that run's.
C6_PreviousIsPrecedingRun ==
    (PostValuate /\ Len(historyCsv) >= 1) =>
        LET last == historyCsv[Len(historyCsv)]
        IN /\ previous_data.total_value = last.total_value
           /\ \A s \in DOMAIN previous_data.prices :
                 previous_data.prices[s] = last.price[s]
           /\ daily_changes.portfolio.total_change = total_value - last.total_value

\* C7: with exactly one entry in the history when the previous snapshot is
\* selected, every figure of the delta report is zero.
C7_SingleEntryAllZero ==
    (PostValuate /\ Len(historyCsv) = 1) =>
        /\ daily_changes.portfolio.total_change = 0
        /\ daily_changes.portfolio.total_change_pct.num = 0
        /\ \A s \in DOMAIN daily_changes.individual :
              /\ daily_changes.individual[s].price_change = 0
              /\ daily_changes.individual[s].price_change_pct.num = 0
              /\ daily_changes.individual[s].value_change = 0

\* C8: a symbol has a per-symbol delta only if it is in the current price
\* map and was held and priced in the run that produced the previous
\* snapshot (an unknown price is the 0 that run wrote).
C8_DeltaOnlyForPricedInBoth ==
    (PostValuate /\ Len(historyCsv) >= 1) =>
        \A s \in DOMAIN daily_changes.individual :
            /\ s \in DOMAIN prices /\ holdings[s] > 0
            /\ PrevRow(historyCsv).qty[s] > 0
            /\ PrevRow(historyCsv).price[s] # 0

\* C9: with an already emptied queue the engine executes nothing: it returns
\* the holdings and the cash it was given and an empty action list.
C9_EmptiedQueueIsNoOp ==
    [][(/\ pc = "read"
        /\ decisionsFile.kind = "ok"
        /\ decisionsFile.execution_queue = <<>>
        /\ pc' # "idle")
       => /\ pc' = "valuate"
          /\ holdings' = holdings
          /\ cash' = cash
          /\ claude_actions' = <<>>
          /\ decisionsFile' = decisionsFile]_vars

\* C9 witness: the engine has returned from a queue an earlier run emptied.
C9_Witness ==
    /\ pc = "valuate"
    /\ decisionsFile = Consumed(0)
    /\ current_date = 1
    /\ holdingsFile # None /\ holdings = holdingsFile /\ cash = cashFile.cash
    /\ cash > 0

\* C10: SELL_ALL on a held symbol s with a known price p leaves
\* holdings[s] = 0 and cash = C + H[s] * p, and no other holding changes.
C10_SellAll ==
    [][(/\ pc = "orders"
        /\ pc' = "orders"
        /\ decisions_data.execution_queue[idx].action = "SELL_ALL"
        /\ holdings[decisions_data.execution_queue[idx].symbol] > 0
        /\ decisions_data.execution_queue[idx].symbol \in DOMAIN prices)
       => LET s == decisions_data.execution_queue[idx].symbol
          IN /\ holdings'[s] = 0
             /\ cash' = cash + holdings[s] * prices[s]
             /\ \A t \in SYMBOLS \ {s} : holdings'[t] = holdings[t]]_vars

\* C10 witness: a SELL_ALL of a held, priced symbol has just executed.
C10_Witness ==
    /\ pc = "orders" /\ idx = 2
    /\ decisions_data.execution_queue[1].action = "SELL_ALL"
    /\ claude_actions # <<>>
    /\ holdings["GEVO"] = 0 /\ holdings["FEIM"] > 0
    /\ cash > LoadCash(cashFile)

\* The order the loop is about to execute.
CurrentOrder == decisions_data.execution_queue[idx]

\* C11: an executed BUY_NEW buys floor(target_value / price) whole shares at
\* cost = shares * price, the cost is within the cash at hand, and the cash
\* afterwards is the cash before minus the cost, never negative.
C11_BuyNewWholeShares ==
    [][(/\ pc = "orders"
        /\ pc' = "orders"
        /\ CurrentOrder.action = "BUY_NEW"
        /\ Len(claude_actions') > Len(claude_actions))
       => LET s == CurrentOrder.symbol
              bought == holdings'[s] - holdings[s]
              cost == bought * prices[s]
          IN /\ bought >= 0
             /\ cost <= CurrentOrder.target_value
             /\ CurrentOrder.target_value < cost + prices[s]
             /\ cost <= cash
             /\ cash' = cash - cost
             /\ cash' >= 0
             /\ \A t \in SYMBOLS \ {s} : holdings'[t] = holdings[t]]_vars

\* C11 witness: a BUY_NEW of target_value 3 at price 2 bought one share for 2.
C11_Witness ==
    /\ pc = "orders" /\ idx = 2
    /\ decisions_data.execution_queue[1].action = "BUY_NEW"
    /\ decisions_data.execution_queue[1].target_value = 3
    /\ "FEIM" \in DOMAIN prices
    /\ prices["FEIM"] = 2
    /\ claude_actions = <<[msg |-> "BUY", symbol |-> "FEIM", shares |-> 1, amount |-> 2]>>
    /\ cash = LoadCash(cashFile) - 2

\* C12: TRIM_TO(s, target) with held quantity q > target and a known price p
\* leaves holdings[s] = target and cash + (q - target) * p; with q <= target
\* it changes neither holdings nor cash.
C12_TrimTo ==
    [][(/\ pc = "orders"
        /\ idx <= Len(decisions_data.execution_queue)
        /\ pc' # "idle"
        /\ CurrentOrder.action = "TRIM_TO"
        /\ CurrentOrder.has_target_quantity)
       => LET s == CurrentOrder.symbol
              target == CurrentOrder.target_quantity
          IN /\ (holdings[s] > target /\ s \in DOMAIN prices) =>
                    /\ holdings' = [holdings EXCEPT ![s] = target]
                    /\ cash' = cash + (holdings[s] - target) * prices[s]
             /\ holdings[s] <= target =>
                    /\ holdings' = holdings
                    /\ cash' = cash]_vars

\* C12 witness: GEVO was trimmed from 199 to 1 at price 2.
C12_Witness ==
    /\ pc = "orders" /\ idx = 2
    /\ decisions_data.execution_queue[1].action = "TRIM_TO"
    /\ "GEVO" \in DOMAIN prices
    /\ holdings["GEVO"] = 1 /\ prices["GEVO"] = 2
    /\ cash = 180 + 198 * 2

\* A TRIM_TO that found no excess and left the state alone.
C12_NoExcessReached ==
    /\ pc = "orders" /\ idx = 2
    /\ decisions_data.execution_queue[1].action = "TRIM_TO"
    /\ decisions_data.execution_queue[1].target_quantity = 1
    /\ holdings["GEVO"] <= 1 /\ "GEVO" \in DOMAIN prices
    /\ claude_actions = <<>>

\* The preconditions of the order are unmet: its symbol has no price, a
\* BUY_NEW finds less cash than its target value, a SELL_ALL finds no shares,
\* a TRIM_TO finds no more shares than its target.
C13_Unmet(order) ==
    \/ order.symbol \notin DOMAIN prices
    \/ order.action = "BUY_NEW" /\ cash < order.target_value
    \/ order.action = "SELL_ALL" /\ holdings[order.symbol] <= 0
    \/ /\ order.action = "TRIM_TO"
       /\ order.has_target_quantity
       /\ holdings[order.symbol] <= order.target_quantity

\* C13: an order whose preconditions are unmet leaves holdings and cash
\* unchanged, is not treated as a failure, and processing continues with the
\* next order.
C13_UnmetOrderIsSkipped ==
    [][(/\ pc = "orders"
        /\ idx <= Len(decisions_data.execution_queue)
        /\ pc' # "idle"
        /\ C13_Unmet(CurrentOrder))
       => /\ holdings' = holdings
          /\ cash' = cash
          /\ claude_actions' = claude_actions
          /\ pc' = "orders"
          /\ idx' = idx + 1]_vars

\* The queue file is missing, empty, unparsable, or parses into something
\* other than a well-formed record: no object at all, or an order that lacks
\* a key its action reads.
C14_Invalid(f) ==
    \/ f.kind \in BrokenKinds
    \/ \E i \in DOMAIN f.execution_queue :
          /\ f.execution_queue[i].action = "TRIM_TO"
          /\ ~f.execution_queue[i].has_target_quantity

\* C14: on a missing, empty, unparsable or structurally invalid queue file
\* execute_trading_decisions returns the input holdings and cash unchanged
\* with an empty action list, and the run goes on to valuation.
C14_InvalidQueueChangesNothing ==
    (pc = "valuate" /\ C14_Invalid(decisionsFile))
        => /\ holdings = LoadHoldings(holdingsFile)
           /\ cash = LoadCash(cashFile)
           /\ claude_actions = <<>>

\* C15: in the output snapshot the prices, quantities and values maps have
\* the same key set: the symbols held in positive quantity whose price is
\* known.
C15_SameKeySets ==
    PostValuate =>
        LET heldAndPriced == {s \in SYMBOLS : holdings[s] > 0 /\ s \in DOMAIN prices}
        IN /\ portfolio_data.prices = heldAndPriced
           /\ portfolio_data.quantities = heldAndPriced
           /\ portfolio_data.values = heldAndPriced

\* C16: the single action description of the output snapshot is that of the
\* last order executed in the run, and is absent exactly when no order was
\* executed.
C16_MostRecentAction ==
    PostValuate =>
        portfolio_data.actions =
            IF claude_actions = <<>> THEN None
            ELSE claude_actions[Len(claude_actions)]

\* C17: every skipped order is observable: no order leaves the queue without
\* either an action entry or a skip entry in the run's log.
C17_EveryOrderLeavesAnEntry ==
    [][(/\ pc = "orders"
        /\ idx <= Len(decisions_data.execution_queue)
        /\ pc' = "orders")
       => OrderPrints(holdings, cash, prices, CurrentOrder)]_vars

\* The left fold of the single-order step over a queue: every order is
\* applied, in queue order, to the holdings and cash left by the one before.
RECURSIVE C18_Fold(_, _, _, _, _)
C18_Fold(h, c, acts, p, queue) ==
    IF queue = <<>>
    THEN [holdings |-> h, cash |-> c, actions |-> acts]
    ELSE LET r == ApplyOrder(h, c, p, Head(queue))
         IN C18_Fold(r.holdings, r.cash, acts \o r.actions, p, Tail(queue))

\* C18: execute_trading_decisions is a left fold over the pending list: the
\* holdings, cash and actions it returns are those of applying the
\* single-order step to each order in queue order, each step starting from
\* the state left by the previous one.
C18_LeftFold ==
    [][(pc = "orders" /\ pc' = "valuate")
       => LET r == C18_Fold(LoadHoldings(holdingsFile), LoadCash(cashFile), <<>>,
                            prices, decisions_data.execution_queue)
          IN /\ holdings' = r.holdings
             /\ cash' = r.cash
             /\ claude_actions' = r.actions]_vars

\* C19: an action description is recorded only for an order whose execution
\* changed holdings or cash.
C19_ActionMeansChange ==
    [][(/\ pc = "orders"
        /\ pc' # "idle"
        /\ Len(claude_actions') > Len(claude_actions))
       => (holdings' # holdings \/ cash' # cash)]_vars

\* The worth of a state at the run's prices: cash plus shares times price
\* over the priced symbols.
C20_Worth(h, c, p) == c + SumOver(DOMAIN p, [s \in DOMAIN p |-> h[s] * p[s]])

\* C20: order execution conserves value at the run's prices: cash plus the
\* priced holdings at their prices is the same after
\* execute_trading_decisions as before it, and the holdings of unpriced
\* symbols are unchanged.
C20_ValueConserved ==
    pc \in {"read", "orders", "valuate"} =>
        /\ C20_Worth(holdings, cash, prices)
             = C20_Worth(LoadHoldings(holdingsFile), LoadCash(cashFile), prices)
        /\ \A s \in SYMBOLS \ DOMAIN prices :
              holdings[s] = LoadHoldings(holdingsFile)[s]

\* C20 witness: a sale and a purchase were executed, one symbol is unpriced.
C20_Witness ==
    /\ pc = "valuate"
    /\ Len(claude_actions) = 2
    /\ claude_actions[1].msg = "TRIM"
    /\ claude_actions[2].msg = "BUY"
    /\ claude_actions[2].shares = 1
    /\ cash # LoadCash(cashFile)

====
